---------------------------- MODULE Spec2Model ----------------------------
(***************************************************************************)
(* Model of the NZ job scraper: src/csv_scraper/scraper_serp.py            *)
(* (scrape_serp_jobs) and src/app.py (get_secret, fetch_clients,           *)
(* scrape_jobs_smart, normalize_filename, the "Run Scraper" path).         *)
(*                                                                         *)
(* Python strings are TLA+ strings; None / an absent dict key is the empty *)
(* tuple <<>> and a present string s is the one-element tuple <<s>>.       *)
(***************************************************************************)
EXTENDS Integers, Sequences, FiniteSets, TLC

VARIABLES
    environ,    \* os.environ: name -> optional string
    secrets,    \* st.secrets: name -> optional string
    fn,         \* the function being run
    pc,         \* its position
    args,       \* its arguments
    locals,     \* its local variables
    requests,   \* the requests issued so far (their parameters), in order
    responses,  \* the responses received so far, in order
    ret,        \* what the caller got back: returned value or raised error
    ui          \* messages shown with st.error

vars == <<environ, secrets, fn, pc, args, locals, requests, responses, ret, ui>>

(***************************************************************************)
(* Bounds of the model                                                     *)
(***************************************************************************)
MaxLen == 3

MaxJobs == 1

MaxNumPages == 3

MaxRecords == 1

MaxClientPages == 2

(***************************************************************************)
(* Python values                                                           *)
(***************************************************************************)
None == <<>>

Some(s) == <<s>>

IsStr(v) == Len(v) = 1

Val(v) == v[1]

\* dict.get(key, default) on an optional entry
Get(v, default) == IF IsStr(v) THEN Val(v) ELSE default

(***************************************************************************)
(* Python str methods, character by character                              *)
(***************************************************************************)
Chr(s, i) == SubSeq(s, i, i)

Min(a, b) == IF a < b THEN a ELSE b

\* s[lo:hi] for 0 <= lo, 0 <= hi
Slice(s, lo, hi) ==
    IF Min(lo, Len(s)) >= Min(hi, Len(s)) THEN ""
    ELSE SubSeq(s, Min(lo, Len(s)) + 1, Min(hi, Len(s)))

\* s[lo:]
From(s, lo) == Slice(s, lo, Len(s))

Whitespace == {" ", "\t", "\n"}

UpperCase == "ABCDEFGHIJKLMNOPQRSTUVWXYZ"

LowerCase == "abcdefghijklmnopqrstuvwxyz"

Digits == "0123456789"

CharsOf(s) == {Chr(s, i) : i \in 1..Len(s)}

IsAlpha(c) == c \in CharsOf(UpperCase) \cup CharsOf(LowerCase)

IsAlnum(c) == IsAlpha(c) \/ c \in CharsOf(Digits)

LowerChar(c) ==
    IF c \in CharsOf(UpperCase)
    THEN Chr(LowerCase, CHOOSE i \in 1..26 : Chr(UpperCase, i) = c)
    ELSE c

UpperChar(c) ==
    IF c \in CharsOf(LowerCase)
    THEN Chr(UpperCase, CHOOSE i \in 1..26 : Chr(LowerCase, i) = c)
    ELSE c

RECURSIVE Lower(_)
Lower(s) ==
    IF s = "" THEN "" ELSE LowerChar(Head(s)) \o Lower(Tail(s))

RECURSIVE LStrip(_)
LStrip(s) ==
    IF s # "" /\ Head(s) \in Whitespace THEN LStrip(Tail(s)) ELSE s

RECURSIVE RStrip(_)
RStrip(s) ==
    IF s # "" /\ Chr(s, Len(s)) \in Whitespace
    THEN RStrip(Slice(s, 0, Len(s) - 1))
    ELSE s

Strip(s) == RStrip(LStrip(s))

\* sub in s
Contains(sub, s) ==
    \E i \in 0..(Len(s) - Len(sub)) : Slice(s, i, i + Len(sub)) = sub

\* s.find(sub): 0-based index of the first occurrence, -1 when there is none
Find(sub, s) ==
    IF Contains(sub, s)
    THEN CHOOSE i \in 0..(Len(s) - Len(sub)) :
            /\ Slice(s, i, i + Len(sub)) = sub
            /\ \A k \in 0..(i - 1) : Slice(s, k, k + Len(sub)) # sub
    ELSE -1

\* s.replace(old, new), old non-empty
RECURSIVE Replace(_, _, _)
Replace(s, old, new) ==
    IF Len(s) < Len(old) THEN s
    ELSE IF Slice(s, 0, Len(old)) = old
         THEN new \o Replace(From(s, Len(old)), old, new)
         ELSE Head(s) \o Replace(Tail(s), old, new)

\* s.split(sep), sep non-empty: the list of pieces
RECURSIVE Split(_, _)
Split(s, sep) ==
    LET i == Find(sep, s)
    IN  IF i < 0 THEN <<s>>
        ELSE <<Slice(s, 0, i)>> \o Split(From(s, i + Len(sep)), sep)

\* s[:n]
Take(s, n) == Slice(s, 0, n)

NoConfig == [n \in {} |-> None]

\* a or b
Truthy(v) == IsStr(v) /\ Val(v) # ""

Or(a, b) == IF Truthy(a) THEN a ELSE b

(***************************************************************************)
(* app.py: normalize_filename                                              *)
(***************************************************************************)
FilenameLimit == 50

FilenameChar(c) == IsAlnum(c) \/ c \in {"_", "-"}

\* "".join(c for c in text if c.isalnum() or c in ("_", "-"))
RECURSIVE KeepFilenameChars(_)
KeepFilenameChars(s) ==
    IF s = "" THEN ""
    ELSE (IF FilenameChar(Head(s)) THEN Head(s) ELSE "")
            \o KeepFilenameChars(Tail(s))

normalize_filename(text) ==
    Take(KeepFilenameChars(Replace(Strip(text), " ", "_")), FilenameLimit)

(***************************************************************************)
(* urllib.parse.urlparse(url).netloc                                       *)
(***************************************************************************)
SchemeChars == CharsOf(UpperCase) \cup CharsOf(LowerCase) \cup CharsOf(Digits)
                \cup {"+", "-", "."}

\* the text after "<scheme>:" when the url starts with a valid scheme
AfterScheme(url) ==
    LET i == Find(":", url)
    IN  IF /\ i > 0
           /\ IsAlpha(Chr(url, 1))
           /\ \A k \in 1..i : Chr(url, k) \in SchemeChars
        THEN From(url, i + 1)
        ELSE url

\* _splitnetloc(url, 2): the 0-based index where the netloc ends, the first of
\* "/", "?", "#" at or after index 2, or the end of the text
NetlocEnd(rest) ==
    LET stops == {k \in 2..(Len(rest) - 1) : Chr(rest, k + 1) \in {"/", "?", "#"}}
    IN  IF stops = {} THEN Len(rest)
        ELSE CHOOSE k \in stops : \A m \in stops : k <= m

Netloc(url) ==
    LET cleaned == Replace(Replace(LStrip(url), "\t", ""), "\n", "")
        rest == AfterScheme(cleaned)
    IN  IF Slice(rest, 0, 2) = "//"
        THEN Slice(rest, 2, NetlocEnd(rest))
        ELSE ""

(***************************************************************************)
(* scraper_serp.py: helpers                                                *)
(***************************************************************************)
\* _first_nonempty(*vals): vals is a sequence of optional strings
RECURSIVE first_nonempty(_)
first_nonempty(vals) ==
    IF vals = <<>> THEN ""
    ELSE IF IsStr(Head(vals)) /\ Strip(Val(Head(vals))) # ""
         THEN Strip(Val(Head(vals)))
         ELSE first_nonempty(Tail(vals))

SeekDomains == {"seek.co.nz", "seek.com.au", "seek.com", "nz.seek.co.nz"}

is_seek(url) ==
    LET host == Lower(Netloc(url))
    IN  \E d \in SeekDomains : Contains(d, host)

\* (j.get("apply_options") or [{}])[0].get("link"); apply_options is None
\* when the key is absent and <<list>> when it is there
FirstOptionLink(j) ==
    IF j.apply_options = None \/ j.apply_options[1] = <<>>
    THEN None
    ELSE j.apply_options[1][1].link

\* exts = j.get("detected_extensions", {}) or {}
Exts(j) ==
    IF j.detected_extensions = <<>>
    THEN [posted_at |-> None, posted |-> None]
    ELSE j.detected_extensions[1]

SerpApplyLink(j) == first_nonempty(<<j.apply_link, FirstOptionLink(j), j.link>>)

SerpSource(j) ==
    IF is_seek(SerpApplyLink(j))
    THEN "Seek"
    ELSE first_nonempty(<<j.via, j.source, Some("Web")>>)

\* the row appended for one entry of jobs_results
SerpRow(j) ==
    "Source" :> SerpSource(j)
    @@ "Position Title" :> Get(j.title, "")
    @@ "Company Name" :> Get(j.company_name, "")
    @@ "Location" :> Get(j.location, "")
    @@ "Posted" :> first_nonempty(<<Exts(j).posted_at, Exts(j).posted>>)
    @@ "Application Weblink" :> SerpApplyLink(j)

(***************************************************************************)
(* The SerpAPI service as the program sees it                              *)
(***************************************************************************)
JobA ==
    [title |-> Some("Nurse"), company_name |-> Some("ACME"),
     location |-> Some("Auckland"),
     detected_extensions |-> <<[posted_at |-> Some("2 days ago"), posted |-> None]>>,
     apply_link |-> Some("https://www.seek.co.nz/job/1"),
     apply_options |-> None, link |-> None,
     via |-> Some("LinkedIn"), source |-> None,
     description |-> Some("Ward nurse")]

JobB ==
    [title |-> Some("Teacher"), company_name |-> None,
     location |-> Some("Wellington"),
     detected_extensions |-> <<>>,
     apply_link |-> Some("  "),
     apply_options |-> <<<<[link |-> Some("https://example.com/jobs/2")]>>>>,
     link |-> Some("https://www.seek.co.nz/job/1"),
     via |-> Some(" "), source |-> None,
     description |-> None]

JobPool == {JobA, JobB}

\* lines 56-77: the rows appended for a page's jobs_results
SerpRowOf == [j \in JobPool |-> SerpRow(j)]

SerpRows(jobs) == [i \in 1..Len(jobs) |-> SerpRowOf[jobs[i]]]

RECURSIVE SeqsUpTo(_, _)
SeqsUpTo(S, n) ==
    IF n = 0 THEN {<<>>}
    ELSE LET shorter == SeqsUpTo(S, n - 1)
         IN  shorter \cup {Append(q, x) : q \in shorter, x \in S}

\* what GoogleSearch(params).get_dict() gives: it raises, or it returns a dict
\* with an optional "error", an optional "jobs_results" list (engine
\* google_jobs), an optional "organic_results" list (engine google) and the
\* next_page_token of "serpapi_pagination" and of "search_metadata"
JobsResponse(raises, error, jobs, pagination, metadata) ==
    [raises |-> raises, error |-> error, jobs_results |-> jobs,
     organic_results |-> None,
     serpapi_pagination |-> pagination, search_metadata |-> metadata]

OrganicResponse(raises, error, organic) ==
    [raises |-> raises, error |-> error, jobs_results |-> None,
     organic_results |-> organic,
     serpapi_pagination |-> None, search_metadata |-> None]

OkJobsResponses ==
    {JobsResponse(FALSE, None, jobs, tok[1], tok[2]) :
        jobs \in {None} \cup {<<l>> : l \in SeqsUpTo(JobPool, MaxJobs)},
        tok \in {<<None, None>>, <<Some(""), None>>,
                 <<Some("t1"), None>>, <<None, Some("t2")>>}}

FailedJobsResponses ==
    {JobsResponse(TRUE, None, None, None, None),
     JobsResponse(FALSE, Some("Invalid API key"), None, None, None),
     JobsResponse(FALSE, Some(""), <<<<JobA>>>>, Some("t1"), None)}

JobsResponses == OkJobsResponses \cup FailedJobsResponses

(***************************************************************************)
(* scrape_serp_jobs                                                        *)
(***************************************************************************)
KeyNames == {"SERPAPI_KEY", "GOOGLE_API_KEY"}

\* os.getenv(name)
getenv(name) == IF name \in DOMAIN environ THEN environ[name] ELSE None

Max(a, b) == IF a > b THEN a ELSE b

SerpKey == Or(Or(args.api_key, getenv("SERPAPI_KEY")), getenv("GOOGLE_API_KEY"))

Raise(type, message) == [kind |-> "raise", type |-> type, value |-> message]

Return(value) == [kind |-> "return", type |-> "", value |-> value]

NotReturned == [kind |-> "none", type |-> "", value |-> <<>>]

Returned == pc = "done" /\ ret.kind = "return"

Raised == pc = "done" /\ ret.kind = "raise"

\* "if key is None" in place of "if not key"
KeyMissingNone(key) == key = None

\* line 32
KeyMissing(key) == ~Truthy(key)

\* the budget taken as given, without max(1, ...)
PagesBudgetUnclamped(num_pages) == num_pages

\* line 37
PagesBudget(num_pages) == Max(1, num_pages)

\* data.get("error") in place of "error" in data
HasErrorTruthy(data) == Truthy(data.error)

\* line 52
HasError(data) == IsStr(data.error)

\* the loop without its break on a missing token
MorePagesNoBreak(next_token, pages_left) == pages_left > 0

\* lines 39 and 86-88: the loop goes on to another request
MorePages(next_token, pages_left) == Truthy(next_token) /\ pages_left > 0

\* lines 31-39: resolve the key or raise; set up the loop
SerpCall ==
    /\ fn = "scrape_serp_jobs"
    /\ pc = "call"
    /\ IF KeyMissing(SerpKey)
       THEN /\ pc' = "done"
            /\ ret' = Raise("RuntimeError", "SerpAPI key missing")
            /\ UNCHANGED locals
       ELSE /\ locals' = [key |-> Get(SerpKey, ""), rows |-> <<>>,
                          next_token |-> None,
                          pages_left |-> PagesBudget(args.num_pages)]
            /\ pc' = IF locals'.pages_left > 0 THEN "loop" ELSE "done"
            /\ ret' = IF locals'.pages_left > 0 THEN ret ELSE Return(<<>>)
    /\ UNCHANGED <<environ, secrets, fn, args, requests, responses, ui>>

SerpParams ==
    [engine |-> "google_jobs", q |-> args.query, location |-> args.location,
     api_key |-> locals.key,
     next_page_token |-> IF Truthy(locals.next_token) THEN locals.next_token ELSE None]

SerpNextToken(data) == Or(data.serpapi_pagination, data.search_metadata)

\* lines 39-92: one iteration of the loop, from the request to the break or the
\* sleep, and the return once the loop is left
SerpPage ==
    /\ fn = "scrape_serp_jobs"
    /\ pc = "loop"
    /\ locals.pages_left > 0
    /\ \E data \in JobsResponses :
        /\ requests' = Append(requests, SerpParams)
        /\ responses' = Append(responses, data)
        /\ IF data.raises
           THEN /\ pc' = "done"
                /\ ret' = Raise("Exception", "request failed")
                /\ UNCHANGED locals
           ELSE IF HasError(data)
           THEN /\ pc' = "done"
                /\ ret' = Raise("RuntimeError", "SerpAPI error: " \o Get(data.error, ""))
                /\ UNCHANGED locals
           ELSE LET rows == locals.rows \o SerpRows(Get(data.jobs_results, <<>>))
                    next_token == SerpNextToken(data)
                    pages_left == locals.pages_left - 1
                    more == MorePages(next_token, pages_left)
                IN  /\ locals' = [locals EXCEPT !.rows = rows,
                                                !.next_token = next_token,
                                                !.pages_left = pages_left]
                    /\ pc' = IF more THEN "loop" ELSE "done"
                    /\ ret' = IF more THEN ret ELSE Return(rows)
    /\ UNCHANGED <<environ, secrets, fn, args, ui>>

Environs ==
    {[n \in KeyNames |-> None],
     [n \in KeyNames |-> Some("")],
     [n \in KeyNames |-> IF n = "SERPAPI_KEY" THEN Some("k1") ELSE None],
     [n \in KeyNames |-> IF n = "SERPAPI_KEY" THEN None ELSE Some("k2")]}

InitSerp ==
    /\ environ \in Environs
    /\ secrets = NoConfig
    /\ fn = "scrape_serp_jobs"
    /\ pc = "call"
    /\ args \in [query : {"nurse"}, location : {"New Zealand"},
                 num_pages : -1..MaxNumPages,
                 api_key : {None, Some(""), Some("k0")}]
    /\ locals = <<>>
    /\ requests = <<>>
    /\ responses = <<>>
    /\ ret = NotReturned
    /\ ui = <<>>

(***************************************************************************)
(* app.py: secrets                                                         *)
(***************************************************************************)
\* str(st.secrets.get(name, os.getenv(name, default)) or "")
get_secret(name, default) ==
    LET found == IF name \in DOMAIN secrets /\ IsStr(secrets[name])
                 THEN secrets[name]
                 ELSE IF IsStr(getenv(name)) THEN getenv(name) ELSE Some(default)
    IN  IF Truthy(found) THEN Val(found) ELSE ""

\* line 18; a module global, computed once from a configuration that the
\* program never changes
SERPAPI_KEY ==
    IF get_secret("SERPAPI_KEY", "") # ""
    THEN get_secret("SERPAPI_KEY", "")
    ELSE get_secret("GOOGLE_API_KEY", "")

(***************************************************************************)
(* scrape_jobs_smart: the site searches (strategy 1)                       *)
(***************************************************************************)
Sites == <<"seek.co.nz", "trademe.co.nz", "indeed.co.nz", "jora.co.nz">>

Queries == {"nurse"}

site_query(i, query) == "site:" \o Sites[i] \o " " \o query

\* s.split()[0]
RECURSIVE UntilSpace(_)
UntilSpace(s) ==
    IF s = "" \/ Head(s) \in Whitespace THEN ""
    ELSE Head(s) \o UntilSpace(Tail(s))

FirstWord(s) == UntilSpace(LStrip(s))

\* s.title(), the letter after a non-letter in upper case, the others in lower
RECURSIVE TitleFrom(_, _)
TitleFrom(s, afterLetter) ==
    IF s = "" THEN ""
    ELSE (IF afterLetter THEN LowerChar(Head(s)) ELSE UpperChar(Head(s)))
            \o TitleFrom(Tail(s), IsAlpha(Head(s)))

Title(s) == TitleFrom(s, FALSE)

\* line 86
site_name(q) ==
    Title(Replace(Replace(Replace(FirstWord(q), "site:", ""), ".co.nz", ""), ".com", ""))

SiteNameOf == [query \in Queries |-> [i \in 1..Len(Sites) |-> site_name(site_query(i, query))]]

TitleWords == {"job", "career", "position", "vacancy", "role"}

SnippetWords == {"job", "career", "apply", "position", "vacancy"}

\* lines 115-117: the result is kept
LooksLikeJob(title, snippet) ==
    \/ \E w \in TitleWords : Contains(w, Lower(title))
    \/ \E w \in SnippetWords : Contains(w, Lower(snippet))

Last(q) == q[Len(q)]

\* lines 120-129
CompanyOf(title, snippet) ==
    IF Contains(" at ", snippet)
    THEN Strip(Split(Split(Split(snippet, " at ")[2], ".")[1], ",")[1])
    ELSE IF Contains(" - ", title) THEN Strip(Last(Split(title, " - ")))
    ELSE ""

\* lines 132-139
LocationOf(snippet) ==
    IF Contains("auckland", Lower(snippet)) THEN "Auckland"
    ELSE IF Contains("wellington", Lower(snippet)) THEN "Wellington"
    ELSE IF Contains("christchurch", Lower(snippet)) THEN "Christchurch"
    ELSE IF Contains("new zealand", Lower(snippet)) THEN "New Zealand"
    ELSE ""

DescriptionLimit == 200

\* lines 141-149
SiteRow(name, result) ==
    LET title == Get(result.title, "")
        link == Get(result.link, "")
        snippet == Get(result.snippet, "")
    IN  "Source" :> name
        @@ "Position Title" :> title
        @@ "Company Name" :> CompanyOf(title, snippet)
        @@ "Location" :> LocationOf(snippet)
        @@ "Posted" :> ""
        @@ "Application Weblink" :> link
        @@ "Description" :> (IF Len(snippet) > DescriptionLimit
                             THEN Take(snippet, DescriptionLimit) \o "..."
                             ELSE snippet)

OrgA ==
    [title |-> Some("Nurse jobs - Seek"),
     link |-> Some("https://www.seek.co.nz/nurse-jobs"),
     snippet |-> Some("Apply now at Southern Cross, Auckland. Great team")]

OrgB ==
    [title |-> Some("About us"), link |-> Some("https://www.seek.co.nz/about"),
     snippet |-> Some("Our history")]

OrgC ==
    [title |-> Some("Registered Nurse role - ACME"),
     link |-> Some("https://www.seek.co.nz/nurse-jobs"),
     snippet |-> None]

OrgD ==
    [title |-> Some("Vacancy"), link |-> None,
     snippet |-> Some("Nursing role in Wellington")]

OrganicPool == {OrgA, OrgB, OrgC, OrgD}

SiteNames == {SiteNameOf[q][i] : q \in Queries, i \in 1..Len(Sites)}

SiteKept == {r \in OrganicPool : LooksLikeJob(Get(r.title, ""), Get(r.snippet, ""))}

SiteRowOf == [name \in SiteNames |-> [r \in SiteKept |-> SiteRow(name, r)]]

\* lines 106-149: site_jobs for one page of organic_results
RECURSIVE SiteJobs(_, _)
SiteJobs(name, results) ==
    IF results = <<>> THEN <<>>
    ELSE (IF Head(results) \in SiteKept
          THEN <<SiteRowOf[name][Head(results)]>>
          ELSE <<>>) \o SiteJobs(name, Tail(results))

(***************************************************************************)
(* scrape_jobs_smart: the generic searches (strategy 2)                    *)
(***************************************************************************)
JobC ==
    [title |-> Some("Caregiver"), company_name |-> Some("Kiwi Care"),
     location |-> None,
     detected_extensions |-> <<[posted_at |-> None, posted |-> Some("today")]>>,
     apply_link |-> None,
     apply_options |-> <<<<>>>>,
     link |-> Some("https://nz.indeed.com/viewjob?jk=3"),
     via |-> None, source |-> Some("Indeed"),
     description |-> Some("Care work")]

GenericPool == {JobA, JobB, JobC}

\* job.get("apply_options", [{}])[0] raises IndexError on an empty list; Python
\* gets there only when apply_link is missing or empty
GenericRaises(job) ==
    ~Truthy(job.apply_link) /\ job.apply_options = Some(<<>>)

\* lines 198-200
GenericApplyLink(job) ==
    LET first == IF job.apply_options = None THEN None
                 ELSE job.apply_options[1][1].link
    IN  IF Truthy(job.apply_link) THEN Val(job.apply_link)
        ELSE IF Truthy(first) THEN Val(first)
        ELSE Get(job.link, "")

\* lines 203-213
GenericSource(apply_link) ==
    LET host == Lower(Netloc(apply_link))
    IN  IF apply_link = "" THEN "Web"
        ELSE IF Contains("seek", host) THEN "Seek"
        ELSE IF Contains("trademe", host) THEN "TradeMe"
        ELSE IF Contains("indeed", host) THEN "Indeed"
        ELSE IF Contains("jora", host) THEN "Jora"
        ELSE "Web"

GenericExts(job) ==
    IF job.detected_extensions = <<>>
    THEN [posted_at |-> None, posted |-> None]
    ELSE job.detected_extensions[1]

\* lines 191-223
GenericRow(job) ==
    "Source" :> GenericSource(GenericApplyLink(job))
    @@ "Position Title" :> Get(job.title, "")
    @@ "Company Name" :> Get(job.company_name, "")
    @@ "Location" :> Get(job.location, "")
    @@ "Posted" :> (IF Truthy(GenericExts(job).posted_at)
                    THEN Val(GenericExts(job).posted_at)
                    ELSE Get(GenericExts(job).posted, ""))
    @@ "Application Weblink" :> GenericApplyLink(job)
    @@ "Description" :> Take(Get(job.description, ""), DescriptionLimit) \o "..."

GenericRowOf == [job \in {j \in GenericPool : ~GenericRaises(j)} |-> GenericRow(job)]

\* the rows appended to all_jobs before the loop over jobs_results ends or raises
RECURSIVE GenericJobs(_)
GenericJobs(jobs) ==
    IF jobs = <<>> \/ GenericRaises(Head(jobs)) THEN <<>>
    ELSE <<GenericRowOf[Head(jobs)]>> \o GenericJobs(Tail(jobs))

(***************************************************************************)
(* scrape_jobs_smart: removing duplicates (lines 232-243)                  *)
(***************************************************************************)
SmartRows ==
    {SiteRowOf[n][r] : n \in SiteNames, r \in SiteKept}
        \cup {GenericRowOf[j] : j \in DOMAIN GenericRowOf}

DedupeKey(job) ==
    <<Strip(Lower(job["Position Title"])), Strip(Lower(job["Company Name"]))>>

DedupeKeyOf == [job \in SmartRows |-> DedupeKey(job)]

RECURSIVE UniqueFrom(_, _)
UniqueFrom(jobs, seen) ==
    IF jobs = <<>> THEN <<>>
    ELSE LET key == DedupeKeyOf[Head(jobs)]
         IN  IF key \notin seen /\ key # <<"", "">>
             THEN <<Head(jobs)>> \o UniqueFrom(Tail(jobs), seen \cup {key})
             ELSE UniqueFrom(Tail(jobs), seen)

unique_jobs(all_jobs) == UniqueFrom(all_jobs, {})

(***************************************************************************)
(* scrape_jobs_smart and the "Run Scraper" button that calls it            *)
(***************************************************************************)
MinJobsWanted == 10

EnoughJobs == 20

ResultsPerSearch == 20

Repeat(x, n) == [i \in 1..n |-> x]

SiteResponses ==
    {OrganicResponse(TRUE, None, None),
     OrganicResponse(FALSE, Some("Rate limited"), Some(<<OrgA>>)),
     OrganicResponse(FALSE, None, Some(<<OrgA, OrgB, OrgC, OrgD>>)),
     OrganicResponse(FALSE, None, Some(Repeat(OrgA, MinJobsWanted)))}

GenericResponses ==
    {JobsResponse(TRUE, None, None, None, None),
     JobsResponse(FALSE, Some("Rate limited"), Some(<<JobA>>), None, None),
     JobsResponse(FALSE, None, Some(<<JobB, JobC, JobA>>), None, None),
     JobsResponse(FALSE, None, Some(Repeat(JobA, MinJobsWanted)), None, None)}

generic_queries(query, location) ==
    <<"\"" \o query \o "\" jobs " \o location,
      query \o " career " \o location,
      query \o " position " \o location>>

Error(text) == [kind |-> "error", text |-> text]

Download(name) == [kind |-> "download", text |-> name]

\* lines 292-303: the checks made before the search starts
RunScraper ==
    /\ fn = "run_scraper"
    /\ pc = "click"
    /\ IF Strip(args.client) = ""
       THEN /\ ui' = Append(ui, Error("Please select or enter a client name."))
            /\ pc' = "done"
            /\ UNCHANGED fn
       ELSE IF Strip(args.query) = ""
       THEN /\ ui' = Append(ui, Error("Please enter a search query."))
            /\ pc' = "done"
            /\ UNCHANGED fn
       ELSE IF SERPAPI_KEY = ""
       THEN /\ ui' = Append(ui, Error("SERPAPI_KEY is missing from Streamlit secrets."))
            /\ pc' = "done"
            /\ UNCHANGED fn
       ELSE /\ fn' = "scrape_jobs_smart"
            /\ pc' = "call"
            /\ UNCHANGED ui
    /\ UNCHANGED <<environ, secrets, args, locals, requests, responses, ret>>

\* lines 312-349: what the button's handler does with the outcome of the search
Shown(result) ==
    IF args.caller # "run_scraper" THEN ui
    ELSE IF result.kind = "raise"
    THEN Append(ui, Error("Search failed: " \o result.value))
    ELSE IF result.value = <<>> THEN ui
    ELSE Append(ui, Download(normalize_filename(args.client) \o "_jobs_"))

\* lines 72-75
SmartCall ==
    /\ fn = "scrape_jobs_smart"
    /\ pc = "call"
    /\ IF SERPAPI_KEY = ""
       THEN /\ pc' = "done"
            /\ ret' = Raise("ValueError", "SERPAPI_KEY is required in Streamlit secrets")
            /\ ui' = Shown(ret')
            /\ UNCHANGED locals
       ELSE /\ pc' = "sites"
            /\ locals' = [all_jobs |-> <<>>, i |-> 1]
            /\ UNCHANGED <<ret, ui>>
    /\ UNCHANGED <<environ, secrets, fn, args, requests, responses>>

\* lines 232-243, and the return to the caller
SmartReturn(all_jobs) ==
    /\ pc' = "done"
    /\ ret' = Return(unique_jobs(all_jobs))
    /\ ui' = Shown(ret')

\* lines 85-158: one iteration of the loop over site_strategies; after the
\* last one, line 161 decides whether the generic searches run
SmartSite ==
    /\ fn = "scrape_jobs_smart"
    /\ pc = "sites"
    /\ \E results \in SiteResponses :
        LET q == site_query(locals.i, args.query)
            name == SiteNameOf[args.query][locals.i]
            failed == results.raises \/ IsStr(results.error)
            site_jobs == IF failed THEN <<>>
                         ELSE SiteJobs(name, Get(results.organic_results, <<>>))
            all_jobs == locals.all_jobs \o site_jobs
        IN  /\ requests' = Append(requests,
                    [engine |-> "google", q |-> q, location |-> args.location,
                     api_key |-> SERPAPI_KEY, num |-> ResultsPerSearch])
            /\ responses' = Append(responses, results)
            /\ IF locals.i < Len(Sites)
               THEN /\ locals' = [all_jobs |-> all_jobs, i |-> locals.i + 1]
                    /\ UNCHANGED <<pc, ret, ui>>
               ELSE IF Len(all_jobs) < MinJobsWanted
               THEN /\ locals' = [all_jobs |-> all_jobs, i |-> 1]
                    /\ pc' = "generic"
                    /\ UNCHANGED <<ret, ui>>
               ELSE /\ locals' = [all_jobs |-> all_jobs, i |-> locals.i]
                    /\ SmartReturn(all_jobs)
    /\ UNCHANGED <<environ, secrets, fn, args>>

\* lines 168-230: one iteration of the loop over generic_queries, which is
\* left once all_jobs holds EnoughJobs rows
SmartGeneric ==
    /\ fn = "scrape_jobs_smart"
    /\ pc = "generic"
    /\ \E results \in GenericResponses :
        LET q == generic_queries(args.query, args.location)[locals.i]
            failed == results.raises \/ IsStr(results.error)
            all_jobs == IF failed THEN locals.all_jobs
                        ELSE locals.all_jobs
                                \o GenericJobs(Get(results.jobs_results, <<>>))
        IN  /\ requests' = Append(requests,
                    [engine |-> "google_jobs", q |-> q,
                     location |-> args.location, api_key |-> SERPAPI_KEY])
            /\ responses' = Append(responses, results)
            /\ IF locals.i < Len(generic_queries(args.query, args.location))
                  /\ Len(all_jobs) < EnoughJobs
               THEN /\ locals' = [all_jobs |-> all_jobs, i |-> locals.i + 1]
                    /\ UNCHANGED <<pc, ret, ui>>
               ELSE /\ locals' = [all_jobs |-> all_jobs, i |-> locals.i]
                    /\ SmartReturn(all_jobs)
    /\ UNCHANGED <<environ, secrets, fn, args>>

SecretStores ==
    {[n \in KeyNames |-> None],
     [n \in KeyNames |-> IF n = "SERPAPI_KEY" THEN Some("") ELSE None],
     [n \in KeyNames |-> IF n = "SERPAPI_KEY" THEN Some("s1") ELSE None]}

InitApp ==
    /\ environ \in Environs
    /\ secrets \in SecretStores
    /\ \/ /\ fn = "run_scraper"
          /\ pc = "click"
          /\ args \in [caller : {"run_scraper"}, client : {" ", "Ann Lee!"},
                       query : {"", "nurse"}, location : {"New Zealand"}]
       \/ /\ fn = "scrape_jobs_smart"
          /\ pc = "call"
          /\ args \in [caller : {"direct"}, client : {""},
                       query : Queries, location : {"New Zealand"}]
    /\ locals = <<>>
    /\ requests = <<>>
    /\ responses = <<>>
    /\ ret = NotReturned
    /\ ui = <<>>

(***************************************************************************)
(* app.py: fetch_clients                                                   *)
(***************************************************************************)
\* lines 19-24; module globals, computed once
AIRTABLE_API_KEY == get_secret("AIRTABLE_API_KEY", "")

AIRTABLE_BASE_ID == get_secret("AIRTABLE_BASE_ID", "")

AIRTABLE_CLIENTS_TABLE == get_secret("AIRTABLE_CLIENTS_TABLE", "Job Seekers")

AIRTABLE_VIEW == get_secret("AIRTABLE_VIEW", "Grid view")

AIRTABLE_CLIENT_FIELD == get_secret("AIRTABLE_CLIENT_FIELD", "Full Name")

AIRTABLE_CLIENT_PROF_FIELD == get_secret("AIRTABLE_CLIENT_PROF_FIELD", "Profession")

\* the guard without the table
AllConfiguredButTable == AIRTABLE_API_KEY # "" /\ AIRTABLE_BASE_ID # ""

\* line 29: all([AIRTABLE_API_KEY, AIRTABLE_BASE_ID, AIRTABLE_CLIENTS_TABLE])
AllConfigured ==
    AIRTABLE_API_KEY # "" /\ AIRTABLE_BASE_ID # "" /\ AIRTABLE_CLIENTS_TABLE # ""

\* requests.utils.quote, for the one reserved character a table name here holds
Quote(s) == Replace(s, " ", "%20")

\* lines 32-36 and 43-44
ClientsRequest(offset) ==
    [url |-> "https://api.airtable.com/v0/" \o AIRTABLE_BASE_ID \o "/"
                \o Quote(AIRTABLE_CLIENTS_TABLE),
     authorization |-> "Bearer " \o AIRTABLE_API_KEY,
     view |-> IF AIRTABLE_VIEW # "" THEN Some(AIRTABLE_VIEW) ELSE None,
     offset |-> offset]

\* fields.get(name, "")
Field(record, name) ==
    IF name \in DOMAIN record.fields THEN record.fields[name] ELSE ""

\* lines 50-56: the clients appended for one page of records
RECURSIVE ClientsOf(_)
ClientsOf(records) ==
    IF records = <<>> THEN <<>>
    ELSE LET name == Strip(Field(Head(records), AIRTABLE_CLIENT_FIELD))
             profession == Strip(Field(Head(records), AIRTABLE_CLIENT_PROF_FIELD))
         IN  (IF name # ""
              THEN <<[name |-> name, profession |-> profession]>>
              ELSE <<>>) \o ClientsOf(Tail(records))

RecAnn == [fields |-> ("Full Name" :> " Ann Lee " @@ "Profession" :> "Nurse")]

RecAnnAgain == [fields |-> ("Full Name" :> "Ann Lee")]

RecBlank == [fields |-> ("Full Name" :> "  " @@ "Profession" :> "Teacher")]

RecordPool == {RecAnn, RecAnnAgain, RecBlank}

\* what requests.get(...) gives: it fails (raise_for_status or the transport
\* raises), or its JSON holds an optional "records" list and an optional "offset"
ClientsResponse(raises, records, offset) ==
    [raises |-> raises, records |-> records, offset |-> offset]

\* the directory has at most MaxClientPages pages: on the last one it gives
\* no offset
ClientsResponses(page) ==
    {ClientsResponse(TRUE, None, None)}
        \cup {ClientsResponse(FALSE, records, offset) :
                records \in {None} \cup {Some(l) : l \in SeqsUpTo(RecordPool, MaxRecords)},
                offset \in IF page < MaxClientPages
                           THEN {None, Some(""), Some("itr1")}
                           ELSE {None, Some("")}}

\* lines 29-39
ClientsCall ==
    /\ fn = "fetch_clients"
    /\ pc = "call"
    /\ IF ~AllConfigured
       THEN /\ pc' = "done"
            /\ ret' = Return(<<>>)
            /\ UNCHANGED locals
       ELSE /\ pc' = "loop"
            /\ locals' = [clients |-> <<>>, offset |-> None, params_offset |-> None]
            /\ UNCHANGED ret
    /\ UNCHANGED <<environ, secrets, fn, args, requests, responses, ui>>

\* lines 42-65: one iteration of the loop, and the return or the except
\* clause that ends it
ClientsPage ==
    /\ fn = "fetch_clients"
    /\ pc = "loop"
    /\ \E response \in ClientsResponses(Len(requests) + 1) :
        LET params_offset == IF Truthy(locals.offset) THEN locals.offset
                             ELSE locals.params_offset
            clients == locals.clients \o ClientsOf(Get(response.records, <<>>))
        IN  /\ requests' = Append(requests, ClientsRequest(params_offset))
            /\ responses' = Append(responses, response)
            /\ IF response.raises
               THEN /\ ui' = Append(ui, Error("Error fetching clients from Airtable"))
                    /\ ret' = Return(<<>>)
                    /\ pc' = "done"
                    /\ locals' = [locals EXCEPT !.params_offset = params_offset]
               ELSE /\ locals' = [clients |-> clients, offset |-> response.offset,
                                  params_offset |-> params_offset]
                    /\ pc' = IF Truthy(response.offset) THEN "loop" ELSE "done"
                    /\ ret' = IF Truthy(response.offset) THEN ret ELSE Return(clients)
                    /\ UNCHANGED ui
    /\ UNCHANGED <<environ, secrets, fn, args>>

RequiredNames == {"AIRTABLE_API_KEY", "AIRTABLE_BASE_ID", "AIRTABLE_CLIENTS_TABLE"}

\* each required name is unset, set in the secrets (to "" or a value) or set
\* in the environment (to "" or a value)
InitClients ==
    /\ \E how \in [RequiredNames -> {"unset", "secret", "empty secret", "env", "empty env"}] :
        /\ secrets = [n \in RequiredNames |->
                        IF how[n] = "secret" THEN Some("sec-" \o n)
                        ELSE IF how[n] = "empty secret" THEN Some("")
                        ELSE None]
        /\ environ = [n \in RequiredNames |->
                        IF how[n] = "env" THEN Some("env-" \o n)
                        ELSE IF how[n] = "empty env" THEN Some("")
                        ELSE IF how[n] = "empty secret" THEN Some("env-" \o n)
                        ELSE None]
    /\ fn = "fetch_clients"
    /\ pc = "call"
    /\ args = <<>>
    /\ locals = <<>>
    /\ requests = <<>>
    /\ responses = <<>>
    /\ ret = NotReturned
    /\ ui = <<>>

NextClients == ClientsCall \/ ClientsPage

SpecClients == InitClients /\ [][NextClients]_vars

IsClients == fn = "fetch_clients"

Secret(n) == IF n \in DOMAIN secrets THEN secrets[n] ELSE None

\* nothing at all is set for the name
Unset(n) == ~IsStr(Secret(n)) /\ ~IsStr(getenv(n))

\* the value the program reads for the name is the empty string
SetEmpty(n) ==
    \/ Secret(n) = Some("")
    \/ ~IsStr(Secret(n)) /\ getenv(n) = Some("")

NotConfigured(n) == Unset(n) \/ SetEmpty(n)

NothingFetched ==
    /\ pc = "done"
    /\ ret = Return(<<>>)
    /\ requests = <<>>
    /\ ui = <<>>

\* C5 as stated: fetch_clients called when the table identifier, the API key
\* or the base identifier is not configured returns an empty sequence, raises
\* no error and issues no network request.
C5_AsStated ==
    (IsClients /\ \E n \in RequiredNames : NotConfigured(n)) =>
        /\ requests = <<>>
        /\ pc = "done" => NothingFetched

\* C5, amended: fetch_clients called when the API key or the base identifier
\* is not configured, or when the table identifier is configured as an empty
\* value, returns an empty sequence, raises no error and issues no network
\* request (a table identifier that is not set at all is "Job Seekers").
C5_NoConfigNoRequest ==
    (/\ IsClients
     /\ pc # "call"
     /\ \/ NotConfigured("AIRTABLE_API_KEY")
        \/ NotConfigured("AIRTABLE_BASE_ID")
        \/ SetEmpty("AIRTABLE_CLIENTS_TABLE"))
        => NothingFetched

\* the key and the base are set and the table is set to the empty string:
\* the lookup has returned without a request
C5_Witness ==
    /\ IsClients /\ pc = "done"
    /\ ~NotConfigured("AIRTABLE_API_KEY")
    /\ ~NotConfigured("AIRTABLE_BASE_ID")
    /\ SetEmpty("AIRTABLE_CLIENTS_TABLE")
    /\ requests = <<>>

\* C9: over successful pages fetch_clients requests each further page with
\* the offset of the page before it until a page has none, and returns
\* clients whose names are non-blank and pairwise different.
C9_UniqueNames ==
    (IsClients /\ \A i \in 1..Len(responses) : ~responses[i].raises) =>
        /\ \A i \in 1..Len(requests) :
            IF i = 1 THEN requests[i].offset = None
            ELSE Truthy(responses[i - 1].offset)
                    /\ requests[i].offset = responses[i - 1].offset
        /\ (pc = "done" /\ requests # <<>>) => ~Truthy(Last(responses).offset)
        /\ Returned =>
            /\ \A i \in 1..Len(ret.value) : Strip(ret.value[i].name) # ""
            /\ \A i, k \in 1..Len(ret.value) :
                i < k => ret.value[i].name # ret.value[k].name

(***************************************************************************)
(* The searches: one call of scrape_serp_jobs, of scrape_jobs_smart, or    *)
(* one click on Run Scraper                                                *)
(***************************************************************************)
Init == InitSerp \/ InitApp

Next ==
    \/ SerpCall
    \/ SerpPage
    \/ RunScraper
    \/ SmartCall
    \/ SmartSite
    \/ SmartGeneric

Spec == Init /\ [][Next]_vars

(***************************************************************************)
(* Properties of the searches                                              *)
(***************************************************************************)
IsSerp == fn = "scrape_serp_jobs"

IsSmart == fn = "scrape_jobs_smart"

\* the search call failed: an exception, or an "error" payload
Failed(data) == data.raises \/ IsStr(data.error)

\* the response carries a continuation token
HasToken(data) == Truthy(data.serpapi_pagination) \/ Truthy(data.search_metadata)

\* the entries of jobs_results of the pages received, in order
RECURSIVE JobsOf(_)
JobsOf(pages) ==
    IF pages = <<>> THEN <<>>
    ELSE Get(Head(pages).jobs_results, <<>>) \o JobsOf(Tail(pages))

Link(row) == row["Application Weblink"]

NoRepeatedLink(rows) ==
    \A i, k \in 1..Len(rows) :
        (i < k /\ Strip(Link(rows[i])) # "") => Link(rows[i]) # Link(rows[k])

\* rows without those whose non-blank link an earlier row carries
RECURSIVE SkipSeenLinks(_, _)
SkipSeenLinks(rows, seen) ==
    IF rows = <<>> THEN <<>>
    ELSE IF Strip(Link(Head(rows))) # "" /\ Link(Head(rows)) \in seen
         THEN SkipSeenLinks(Tail(rows), seen)
         ELSE <<Head(rows)>> \o SkipSeenLinks(Tail(rows), seen \cup {Link(Head(rows))})

\* C1: within one fetch no two returned records carry the same non-blank
\* 'Application Weblink': a result whose non-blank link was already emitted is
\* skipped, and records with a blank link are all kept.
C1_UniqueLinks ==
    Returned =>
        /\ NoRepeatedLink(ret.value)
        /\ IsSerp => ret.value = SkipSeenLinks(SerpRows(JobsOf(responses)), {})

ErrorFree == \A i \in 1..Len(responses) : ~Failed(responses[i])

\* C2: with num_pages >= 1 and error-free responses, scrape_serp_jobs sends
\* its requests one after another, each after the first carrying the token of
\* the response before it; it sends none after a response without a token and
\* never more than num_pages; it returns the rows of exactly the pages it
\* requested.
C2_Pagination ==
    (IsSerp /\ args.num_pages >= 1 /\ ErrorFree) =>
        /\ Len(requests) = Len(responses)
        /\ Len(requests) <= args.num_pages
        /\ \A i \in 1..Len(requests) :
            IF i = 1 THEN requests[i].next_page_token = None
            ELSE /\ HasToken(responses[i - 1])
                 /\ Truthy(requests[i].next_page_token)
                 /\ requests[i].next_page_token
                        \in {responses[i - 1].serpapi_pagination,
                             responses[i - 1].search_metadata}
        /\ pc = "loop" =>
            /\ Len(requests) < args.num_pages
            /\ requests = <<>> \/ HasToken(Last(responses))
        /\ (pc = "done" /\ requests # <<>>) =>
            /\ ret.kind = "return"
            /\ ~HasToken(Last(responses)) \/ Len(requests) = args.num_pages
            /\ ret.value = SerpRows(JobsOf(responses))
            /\ Len(ret.value) = Len(JobsOf(responses))

\* two pages were fetched, the second carried no token, and the budget of
\* three pages was not used up
C2_Witness ==
    /\ IsSerp /\ Returned
    /\ args.num_pages = 3
    /\ Len(requests) = 2
    /\ ~HasToken(responses[2])
    /\ Len(ret.value) = 2

\* C3: an 'error' field in the response to any request of scrape_serp_jobs
\* makes the fetch raise at once: that request is the last one, and the caller
\* gets the error and no rows, whatever earlier pages gave.
C3_ErrorAborts ==
    IsSerp =>
        \A i \in 1..Len(responses) :
            IsStr(responses[i].error) =>
                /\ i = Len(responses)
                /\ Len(requests) = i
                /\ Raised

\* the second page reported an error after the first had given rows
C3_Witness ==
    /\ IsSerp /\ Raised
    /\ Len(responses) = 2
    /\ IsStr(responses[2].error)
    /\ locals.rows # <<>>

Configured(name) ==
    \/ Truthy(getenv(name))
    \/ name \in DOMAIN secrets /\ Truthy(secrets[name])

NoSerpKey ==
    /\ IsSerp
    /\ ~Truthy(args.api_key)
    /\ \A n \in KeyNames : ~Truthy(getenv(n))

NoAppKey ==
    /\ fn \in {"run_scraper", "scrape_jobs_smart"}
    /\ \A n \in KeyNames : ~Configured(n)

KeyErrorShown ==
    /\ ret = NotReturned
    /\ ui # <<>>
    /\ Last(ui).kind = "error"
    /\ (Strip(args.client) # "" /\ Strip(args.query) # "")
            => Contains("SERPAPI_KEY is missing", Last(ui).text)

\* C4: when no API key is resolvable, scrape_serp_jobs, scrape_jobs_smart and
\* the Run Scraper path fail with a configuration error and no search request
\* is ever issued.
C4_NoKeyNoRequest ==
    (NoSerpKey \/ NoAppKey) =>
        /\ requests = <<>>
        /\ pc \in {"call", "click", "done"}
        /\ (pc = "done" /\ IsSerp) => (Raised /\ ret.type = "RuntimeError")
        /\ (pc = "done" /\ IsSmart) => (Raised /\ ret.type = "ValueError")
        /\ (pc = "done" /\ fn = "run_scraper") => KeyErrorShown

\* scrape_serp_jobs was called without a key while both variables were set
\* to the empty string, and it has raised
C4_Witness ==
    /\ NoSerpKey /\ Raised
    /\ getenv("SERPAPI_KEY") = Some("")
    /\ getenv("GOOGLE_API_KEY") = Some("")

\* the label the claimed fallback order gives a result
ClaimedSource(j) ==
    LET link == SerpApplyLink(j)
        host == Lower(Netloc(link))
        provenance == first_nonempty(<<j.via, j.source>>)
    IN  IF \E d \in SeekDomains : Contains(d, host) THEN "Seek"
        ELSE IF provenance # "" THEN provenance
        ELSE IF host # "" THEN host
        ELSE "Web"

ClaimedSourceOf == [j \in JobPool |-> ClaimedSource(j)]

\* C6: every record's source label is the job-board name when the link's host
\* is a known job board, else the provenance field when non-blank, else the
\* link's bare host when it has one, else "Web".
C6_SourceFallback ==
    (IsSerp /\ Returned) =>
        \A i \in 1..Len(ret.value) :
            ret.value[i]["Source"] = ClaimedSourceOf[JobsOf(responses)[i]]

\* C8: in scrape_jobs_smart a failed search call aborts the fetch: no request
\* follows it, the error reaches the caller and no records are returned.
C8_FailureAborts ==
    IsSmart =>
        \A i \in 1..Len(responses) :
            Failed(responses[i]) =>
                /\ i = Len(responses)
                /\ pc = "done" => Raised

\* C10: scrape_serp_jobs with a key and num_pages <= 0 still issues one
\* request and returns that page's rows; the number of requests of a finished
\* fetch is between 1 and max(1, num_pages), never 0.
C10_AtLeastOnePage ==
    (IsSerp /\ ~NoSerpKey /\ pc # "call") =>
        LET budget == IF args.num_pages < 1 THEN 1 ELSE args.num_pages
        IN  /\ Len(requests) <= budget
            /\ pc = "loop" => Len(requests) < budget
            /\ pc = "done" => Len(requests) >= 1
            /\ (Returned /\ args.num_pages <= 0) =>
                /\ Len(requests) = 1
                /\ ret.value = SerpRows(Get(responses[1].jobs_results, <<>>))

\* called with num_pages = -1, the fetch took one page that had a row and a
\* token for a further page, and returned that row
C10_Witness ==
    /\ IsSerp /\ Returned
    /\ args.num_pages = -1
    /\ Len(requests) = 1
    /\ HasToken(responses[1])
    /\ Len(ret.value) = 1

(***************************************************************************)
(* normalize_filename on its own                                           *)
(***************************************************************************)
FilenameAlphabet == {" ", "a", "7", "_", "-", "!"}

RECURSIVE StringsUpTo(_, _)
StringsUpTo(alphabet, n) ==
    IF n = 0 THEN {""}
    ELSE LET shorter == StringsUpTo(alphabet, n - 1)
         IN  shorter \cup {s \o c : s \in shorter, c \in alphabet}

InitNormalize ==
    /\ environ = NoConfig
    /\ secrets = NoConfig
    /\ fn = "normalize_filename"
    /\ pc = "call"
    /\ args \in [text : StringsUpTo(FilenameAlphabet, MaxLen)]
    /\ locals = <<>>
    /\ requests = <<>>
    /\ responses = <<>>
    /\ ret = NotReturned
    /\ ui = <<>>

Normalize ==
    /\ fn = "normalize_filename"
    /\ pc = "call"
    /\ pc' = "done"
    /\ ret' = Return(normalize_filename(args.text))
    /\ UNCHANGED <<environ, secrets, fn, args, locals, requests, responses, ui>>

NextNormalize == Normalize

SpecNormalize == InitNormalize /\ [][NextNormalize]_vars

\* C7: normalize_filename never returns a blank string: an input whose
\* trimmed and stripped result is empty gives a fixed non-empty placeholder.
C7_NeverBlank ==
    (fn = "normalize_filename" /\ Returned) => Strip(ret.value) # ""

=============================================================================
